---- MODULE Spec2Model ----
(***************************************************************************)
(* Cricket field planner: the position catalog, the position detector      *)
(* (nearest catalog entry within a snap radius, regional fallback), and    *)
(* the scene with its drag, rename, orientation, preset and undo/redo      *)
(* handlers.                                                               *)
(*                                                                         *)
(* Coordinates are percentages of the field.  The model works on the       *)
(* integer grid, where every Euclidean comparison of the source            *)
(* (Math.sqrt(a) < Math.sqrt(b), Math.sqrt(a) < 12, Math.sqrt(a) <= 28)    *)
(* is decided exactly by the same comparison of the squared distances.     *)
(***************************************************************************)
EXTENDS Integers, Sequences, FiniteSets, TLC

VARIABLES
    fielders,        \* App.tsx:20  Fielder[]
    currentPreset,   \* App.tsx:21
    isLeftHanded,    \* App.tsx:22
    draggingId,      \* App.tsx:23  string | null
    selectedId,      \* App.tsx:24  string | null
    history,         \* App.tsx:27  HistoryState[]
    historyIndex,    \* App.tsx:30  0-based index into history
    skipHistoryRef,  \* App.tsx:36  skipHistoryRef.current
    histSerial,      \* ghost: serial number of the push that made each history entry
    pushCount,       \* ghost: number of snapshots pushed so far
    lastEvent,       \* ghost: the event handled last
    px, py, pMirrored, pResult, pc,  \* one call of detectPosition: inputs, result, position
    editingId,       \* FielderPanel.tsx:13  string | null
    editValue,       \* FielderPanel.tsx:14
    storage,         \* localStorage: the item stored under STORAGE_KEY
    lastCall,        \* ghost: the last call of storage.ts, its arguments and outcome
    catalog          \* fieldPositions.ts:11  the array ALL_POSITIONS as it is at run time

vars == <<fielders, currentPreset, isLeftHanded, draggingId, selectedId,
          history, historyIndex, skipHistoryRef, histSerial, pushCount,
          lastEvent, px, py, pMirrored, pResult, pc,
          editingId, editValue, storage, lastCall, catalog>>

appVars == <<fielders, currentPreset, isLeftHanded, draggingId, selectedId,
             history, historyIndex, skipHistoryRef, histSerial, pushCount,
             lastEvent>>

probeVars == <<px, py, pMirrored, pResult, pc>>

panelVars == <<editingId, editValue>>

storeVars == <<storage, lastCall>>

refVars == <<catalog>>

-----------------------------------------------------------------------------
(* Bounds of the model *)

\* detectPosition is applied to every grid point of 0..GridMax x 0..GridMax
GridMax == 100

\* snapshots pushed in one behaviour of the application specification
MaxPush == 2

\* snapshots pushed in one behaviour of the history specification
MaxHistPush == 60

-----------------------------------------------------------------------------
(* Values *)

\* null, for the nullable ids (draggingId, selectedId)
NULL == "null"

Min(a, b) == IF a < b THEN a ELSE b
Max(a, b) == IF a > b THEN a ELSE b

\* Array.prototype.slice(-n): the last n elements
LastN(s, n) == IF Len(s) <= n THEN s ELSE SubSeq(s, Len(s) - n + 1, Len(s))

-----------------------------------------------------------------------------
(* Position catalog: fieldPositions.ts *)

Pos(id, name, label, x, y, category) ==
    [id |-> id, name |-> name, label |-> label, x |-> x, y |-> y, category |-> category]

ALL_POSITIONS == <<
    Pos("wk", "Wicketkeeper", "WK", 50, 30, "keeper"),
    Pos("bowler", "Bowler", "Bowler", 50, 72, "bowler"),
    Pos("third_man", "Third Man", "3rd Man", 20, 10, "boundary"),
    Pos("fine_leg", "Fine Leg", "Fine Leg", 80, 10, "boundary"),
    Pos("slip1", "1st Slip", "1st Slip", 44, 26, "slip"),
    Pos("slip2", "2nd Slip", "2nd Slip", 41, 27, "slip"),
    Pos("slip3", "3rd Slip", "3rd Slip", 38, 28, "slip"),
    Pos("slip4", "4th Slip", "4th Slip", 35, 29, "slip"),
    Pos("gully", "Gully", "Gully", 30, 32, "close"),
    Pos("leg_slip", "Leg Slip", "Leg Slip", 56, 26, "close"),
    Pos("leg_gully", "Leg Gully", "Leg Gully", 68, 32, "close"),
    Pos("short_leg", "Short Leg", "Short Leg", 60, 36, "close"),
    Pos("silly_point", "Silly Point", "Silly Pt", 42, 36, "close"),
    Pos("backward_square", "Backward Square Leg", "Bwd Sq", 72, 34, "close"),
    Pos("point", "Point", "Point", 26, 42, "ring"),
    Pos("backward_point", "Backward Point", "Bwd Pt", 26, 36, "ring"),
    Pos("cover", "Cover", "Cover", 28, 52, "ring"),
    Pos("extra_cover", "Extra Cover", "Ex Cover", 34, 58, "ring"),
    Pos("mid_off", "Mid Off", "Mid Off", 38, 64, "ring"),
    Pos("mid_on", "Mid On", "Mid On", 62, 64, "ring"),
    Pos("mid_wicket", "Mid Wicket", "Mid Wkt", 72, 52, "ring"),
    Pos("square_leg", "Square Leg", "Sq Leg", 72, 42, "ring"),
    Pos("deep_point", "Deep Point", "Dp Point", 12, 42, "boundary"),
    Pos("deep_square", "Deep Square Leg", "Dp Sq Leg", 88, 42, "boundary"),
    Pos("sweeper", "Sweeper", "Sweeper", 90, 48, "boundary"),
    Pos("deep_cover", "Deep Cover", "Dp Cover", 14, 52, "boundary"),
    Pos("deep_mid_wicket", "Deep Mid Wicket", "Dp MWkt", 86, 52, "boundary"),
    Pos("deep_mid_off", "Deep Mid Off", "Dp Mid Off", 30, 76, "boundary"),
    Pos("deep_mid_on", "Deep Mid On", "Dp Mid On", 70, 76, "boundary"),
    Pos("long_off", "Long Off", "Long Off", 35, 88, "boundary"),
    Pos("long_on", "Long On", "Long On", 65, 88, "boundary"),
    Pos("cow_corner", "Cow Corner", "Cow Cnr", 80, 82, "boundary") >>

-----------------------------------------------------------------------------
(* Position detector: positionDetection.ts, lines 1-186 *)

CIRCLE_CENTER_X == 50
CIRCLE_CENTER_Y == 50
CIRCLE_RADIUS == 28

\* the snap threshold of detectPosition (minDistance < 12)
SNAP_DISTANCE == 12

\* Math.pow(ax - bx, 2) + Math.pow(ay - by, 2): the argument of Math.sqrt
Dist2(ax, ay, bx, by) == (ax - bx) * (ax - bx) + (ay - by) * (ay - by)

\* the circle without its edge
isInsideCircle_Strict(x, y) ==
    Dist2(x, y, CIRCLE_CENTER_X, CIRCLE_CENTER_Y) < CIRCLE_RADIUS * CIRCLE_RADIUS

\* a radius of 38, the value of an earlier revision of the detector
isInsideCircle_Radius38(x, y) ==
    Dist2(x, y, CIRCLE_CENTER_X, CIRCLE_CENTER_Y) <= 38 * 38

\* distanceFromCenter <= CIRCLE_RADIUS
isInsideCircle(x, y) ==
    Dist2(x, y, CIRCLE_CENTER_X, CIRCLE_CENTER_Y) <= CIRCLE_RADIUS * CIRCLE_RADIUS

Zone(name, label, category) == [name |-> name, label |-> label, category |-> category]

\* the middle line counted to the off side
offSide_Inclusive(x) == x <= 50

\* const isOffSide = x < 50
offSide(x) == x < 50

\* the region named for a point that is near no catalog entry
getRegionalPosition(x, y) ==
    LET isOffSide == offSide(x)
        insideCircle == isInsideCircle(x, y)
        category == IF insideCircle THEN "ring" ELSE "boundary"
    IN  IF y < 25 THEN
            IF isOffSide THEN Zone("Third Man", "3rd Man", "boundary")
                         ELSE Zone("Fine Leg", "Fine Leg", "boundary")
        ELSE IF y < 35 THEN
            IF isOffSide THEN
                IF x > 35 THEN Zone("Slips Area", "Slips", "slip")
                          ELSE Zone("Gully", "Gully", "close")
            ELSE
                IF x < 60 THEN Zone("Leg Slip", "Leg Slip", "close")
                          ELSE Zone("Leg Gully", "Leg Gully", "close")
        ELSE IF y < 50 THEN
            IF isOffSide THEN
                IF insideCircle THEN Zone("Point", "Point", category)
                                ELSE Zone("Deep Point", "Dp Point", category)
            ELSE
                IF insideCircle THEN Zone("Square Leg", "Sq Leg", category)
                ELSE IF x > 85 THEN Zone("Sweeper", "Sweeper", category)
                               ELSE Zone("Deep Square Leg", "Dp Sq Leg", category)
        ELSE IF y < 65 THEN
            IF isOffSide THEN
                IF insideCircle THEN Zone("Cover", "Cover", category)
                                ELSE Zone("Deep Cover", "Dp Cover", category)
            ELSE
                IF insideCircle THEN Zone("Mid Wicket", "Mid Wkt", category)
                                ELSE Zone("Deep Mid Wicket", "Dp MWkt", category)
        ELSE IF y < 80 THEN
            IF isOffSide THEN
                IF insideCircle THEN Zone("Mid Off", "Mid Off", category)
                                ELSE Zone("Deep Mid Off", "Dp Mid Off", category)
            ELSE
                IF insideCircle THEN Zone("Mid On", "Mid On", category)
                ELSE IF x > 75 THEN Zone("Cow Corner", "Cow Cnr", category)
                               ELSE Zone("Deep Mid On", "Dp Mid On", category)
        ELSE
            IF isOffSide THEN Zone("Long Off", "Long Off", "boundary")
            ELSE IF x > 75 THEN Zone("Cow Corner", "Cow Cnr", "boundary")
                           ELSE Zone("Long On", "Long On", "boundary")

\* the mirror flag read the wrong way round
adjustX_Inverted(x, isLH) == IF isLH THEN x ELSE 100 - x

\* the mirror flag ignored
adjustX_NoFlip(x, isLH) == x

\* const adjustedX = isLeftHanded ? 100 - x : x
adjustX(x, isLH) == IF isLH THEN 100 - x ELSE x

\* no catalog entry skipped
isFixedRole_None(pos) == FALSE

\* if (pos.id === 'wk' || pos.id === 'bowler') continue
isFixedRole(pos) == pos.id = "wk" \/ pos.id = "bowler"

\* a later entry at the same distance replaces the earlier one
isCloser_OrEqual(distance2, closest, minDistance2) ==
    closest = 0 \/ distance2 <= minDistance2

\* if (distance < minDistance); closest = 0 stands for minDistance = Infinity
isCloser(distance2, closest, minDistance2) ==
    closest = 0 \/ distance2 < minDistance2

\* the loop over ALL_POSITIONS from index i on, with the running minimum;
\* closest is an index into ALL_POSITIONS, 0 for null
RECURSIVE closestFrom(_, _, _, _, _)
closestFrom(i, adjustedX, y, closest, minDistance2) ==
    IF i > Len(catalog)
    THEN [closestPosition |-> closest, minDistance2 |-> minDistance2]
    ELSE LET pos == catalog[i]
             distance2 == Dist2(adjustedX, y, pos.x, pos.y)
         IN  IF isFixedRole(pos)
             THEN closestFrom(i + 1, adjustedX, y, closest, minDistance2)
             ELSE IF isCloser(distance2, closest, minDistance2)
                  THEN closestFrom(i + 1, adjustedX, y, i, distance2)
                  ELSE closestFrom(i + 1, adjustedX, y, closest, minDistance2)

\* if (closestPosition && minDistance < 12)
withinSnap(closest, minDistance2) ==
    closest # 0 /\ minDistance2 < SNAP_DISTANCE * SNAP_DISTANCE

\* the null of detectPosition's return type
nullPosition == [null |-> TRUE]

\* no fallback: null when no catalog entry is within the snap radius
detectPosition_NullFallback(x, y, isLH) ==
    LET adjustedX == adjustX(x, isLH)
        found == closestFrom(1, adjustedX, y, 0, 0)
    IN  IF withinSnap(found.closestPosition, found.minDistance2)
        THEN LET closestPosition == catalog[found.closestPosition]
             IN  Zone(closestPosition.name, closestPosition.label, closestPosition.category)
        ELSE nullPosition

detectPosition(x, y, isLH) ==
    LET adjustedX == adjustX(x, isLH)
        found == closestFrom(1, adjustedX, y, 0, 0)
    IN  IF withinSnap(found.closestPosition, found.minDistance2)
        THEN LET closestPosition == catalog[found.closestPosition]
             IN  Zone(closestPosition.name, closestPosition.label, closestPosition.category)
        ELSE getRegionalPosition(adjustedX, y)

-----------------------------------------------------------------------------
(* Presets: fieldPositions.ts *)

Preset(id, name, fielderIds) == [id |-> id, name |-> name, fielderIds |-> fielderIds]

\* the table with 'slip1' listed twice in the standard and the spin field
FIELD_PRESETS_Duplicate == <<
    Preset("standard", "Standard",
        <<"wk", "bowler", "slip1", "slip1", "gully", "point", "cover", "mid_off",
          "mid_on", "mid_wicket", "fine_leg">>),
    Preset("attacking", "Attacking",
        <<"wk", "bowler", "slip1", "slip2", "slip3", "gully", "short_leg",
          "silly_point", "point", "mid_off", "mid_on">>),
    Preset("defensive", "Defensive",
        <<"wk", "bowler", "cover", "extra_cover", "mid_off", "mid_on", "mid_wicket",
          "square_leg", "long_off", "long_on", "fine_leg">>),
    Preset("powerplay", "Powerplay",
        <<"wk", "bowler", "slip1", "gully", "point", "cover", "mid_off", "mid_on",
          "mid_wicket", "square_leg", "third_man">>),
    Preset("death", "Death Overs",
        <<"wk", "bowler", "deep_point", "deep_cover", "long_off", "long_on",
          "deep_mid_wicket", "deep_square", "sweeper", "third_man", "point">>),
    Preset("spin", "Spin Attack",
        <<"wk", "bowler", "slip1", "slip1", "short_leg", "point", "cover",
          "mid_off", "mid_on", "mid_wicket", "deep_mid_wicket">>) >>

FIELD_PRESETS == <<
    Preset("standard", "Standard",
        <<"wk", "bowler", "slip1", "slip2", "gully", "point", "cover", "mid_off",
          "mid_on", "mid_wicket", "fine_leg">>),
    Preset("attacking", "Attacking",
        <<"wk", "bowler", "slip1", "slip2", "slip3", "gully", "short_leg",
          "silly_point", "point", "mid_off", "mid_on">>),
    Preset("defensive", "Defensive",
        <<"wk", "bowler", "cover", "extra_cover", "mid_off", "mid_on", "mid_wicket",
          "square_leg", "long_off", "long_on", "fine_leg">>),
    Preset("powerplay", "Powerplay",
        <<"wk", "bowler", "slip1", "gully", "point", "cover", "mid_off", "mid_on",
          "mid_wicket", "square_leg", "third_man">>),
    Preset("death", "Death Overs",
        <<"wk", "bowler", "deep_point", "deep_cover", "long_off", "long_on",
          "deep_mid_wicket", "deep_square", "sweeper", "third_man", "point">>),
    Preset("spin", "Spin Attack",
        <<"wk", "bowler", "slip1", "silly_point", "short_leg", "point", "cover",
          "mid_off", "mid_on", "mid_wicket", "deep_mid_wicket">>) >>

\* Array.prototype.find over a sequence of records with an id: the first index, 0 for none
findById(seq, id) ==
    IF \E i \in 1..Len(seq) : seq[i].id = id
    THEN CHOOSE i \in 1..Len(seq) :
             seq[i].id = id /\ \A j \in 1..(i - 1) : seq[j].id # id
    ELSE 0

\* the copy is made inactive
toFielder_Inactive(pos) ==
    [id |-> pos.id, name |-> pos.name, label |-> pos.label, x |-> pos.x, y |-> pos.y,
     category |-> pos.category, isActive |-> FALSE]

\* { ...pos, isActive: true }
toFielder(pos) ==
    [id |-> pos.id, name |-> pos.name, label |-> pos.label, x |-> pos.x, y |-> pos.y,
     category |-> pos.category, isActive |-> TRUE]

\* preset.fielderIds.map(...).filter(f => f !== null), from index i on
RECURSIVE presetFieldersFrom(_, _)
presetFieldersFrom(fielderIds, i) ==
    IF i > Len(fielderIds) THEN << >>
    ELSE LET p == findById(catalog, fielderIds[i])
         IN  IF p = 0 THEN presetFieldersFrom(fielderIds, i + 1)
             ELSE <<toFielder(catalog[p])>> \o presetFieldersFrom(fielderIds, i + 1)

getPresetFielders(presetId) ==
    LET p == findById(FIELD_PRESETS, presetId)
    IN  IF p = 0 THEN << >> ELSE presetFieldersFrom(FIELD_PRESETS[p].fielderIds, 1)

-----------------------------------------------------------------------------
(* Application state and handlers: App.tsx *)

\* newHistory.slice(-50)
HISTORY_LIMIT == 50

\* Math.min(prev + 1, 49)
HISTORY_INDEX_MAX == 49

\* the margins of the clamp: Math.max(3, Math.min(97, x))
CLAMP_MIN == 3
CLAMP_MAX == 97

HistoryState(f, lh) == [fielders |-> f, isLeftHanded |-> lh]

\* history[historyIndex], the source's index being 0-based
historyAt(i) == history[i + 1]

\* the oldest 50 entries are kept instead of the newest
pushHistory_KeepOldest(prev, index, item) ==
    SubSeq(Append(SubSeq(prev, 1, index + 1), item), 1,
           Min(HISTORY_LIMIT, Len(SubSeq(prev, 1, index + 1)) + 1))

\* the list is not cut to its last 50 entries
pushHistory_NoLimit(prev, index, item) == Append(SubSeq(prev, 1, index + 1), item)

\* prev.slice(0, historyIndex + 1), push(item), slice(-50)
pushHistory(prev, index, item) ==
    LastN(Append(SubSeq(prev, 1, index + 1), item), HISTORY_LIMIT)

\* if (skipHistoryRef.current)
shouldSkipHistory == skipHistoryRef

addToHistory(newFielders, newIsLeftHanded) ==
    IF shouldSkipHistory
    THEN /\ skipHistoryRef' = FALSE
         /\ UNCHANGED <<history, historyIndex, histSerial, pushCount>>
    ELSE /\ history' = pushHistory(history, historyIndex,
                                   HistoryState(newFielders, newIsLeftHanded))
         /\ histSerial' = pushHistory(histSerial, historyIndex, pushCount + 1)
         /\ pushCount' = pushCount + 1
         /\ historyIndex' = Min(historyIndex + 1, HISTORY_INDEX_MAX)
         /\ UNCHANGED skipHistoryRef

handlePresetChange(presetId) ==
    LET newFielders == getPresetFielders(presetId)
    IN  /\ fielders' = newFielders
        /\ currentPreset' = presetId
        /\ addToHistory(newFielders, isLeftHanded)
        /\ lastEvent' = "preset"
        /\ UNCHANGED <<isLeftHanded, draggingId, selectedId>>

\* the mirror image is written into the stored coordinates
handleToggleHandedness_Bake ==
    LET newValue == ~isLeftHanded
        newFielders == [i \in 1..Len(fielders) |->
                           [fielders[i] EXCEPT !.x = 100 - fielders[i].x]]
    IN  /\ isLeftHanded' = newValue
        /\ fielders' = newFielders
        /\ addToHistory(newFielders, newValue)
        /\ lastEvent' = "toggle"
        /\ UNCHANGED <<currentPreset, draggingId, selectedId>>

handleToggleHandedness ==
    LET newValue == ~isLeftHanded
    IN  /\ isLeftHanded' = newValue
        /\ addToHistory(fielders, newValue)
        /\ lastEvent' = "toggle"
        /\ UNCHANGED <<fielders, currentPreset, draggingId, selectedId>>

handleUndo ==
    /\ lastEvent' = "undo"
    /\ IF historyIndex > 0
       THEN LET prevState == historyAt(historyIndex - 1)
            IN  /\ skipHistoryRef' = TRUE
                /\ fielders' = prevState.fielders
                /\ isLeftHanded' = prevState.isLeftHanded
                /\ historyIndex' = historyIndex - 1
                /\ UNCHANGED <<currentPreset, draggingId, selectedId, history,
                               histSerial, pushCount>>
       ELSE UNCHANGED <<fielders, currentPreset, isLeftHanded, draggingId, selectedId,
                        history, historyIndex, skipHistoryRef, histSerial, pushCount>>

handleRedo ==
    /\ lastEvent' = "redo"
    /\ IF historyIndex < Len(history) - 1
       THEN LET nextState == historyAt(historyIndex + 1)
            IN  /\ skipHistoryRef' = TRUE
                /\ fielders' = nextState.fielders
                /\ isLeftHanded' = nextState.isLeftHanded
                /\ historyIndex' = historyIndex + 1
                /\ UNCHANGED <<currentPreset, draggingId, selectedId, history,
                               histSerial, pushCount>>
       ELSE UNCHANGED <<fielders, currentPreset, isLeftHanded, draggingId, selectedId,
                        history, historyIndex, skipHistoryRef, histSerial, pushCount>>

\* no clamping of the pointer coordinate
clamp_None(v) == v

\* Math.max(3, Math.min(97, v))
clamp(v) == Max(CLAMP_MIN, Min(CLAMP_MAX, v))

\* const storedX = isLeftHanded ? 100 - clampedX : clampedX
toStoredX(clampedX, isLH) == IF isLH THEN 100 - clampedX ELSE clampedX

\* detectedPosition?.name || f.name, and likewise label and category
movedFielder(f, storedX, clampedY, detectedPosition) ==
    LET found == detectedPosition # nullPosition
    IN  [f EXCEPT !.x = storedX,
                  !.y = clampedY,
                  !.name = IF found /\ detectedPosition.name # ""
                           THEN detectedPosition.name ELSE f.name,
                  !.label = IF found /\ detectedPosition.label # ""
                            THEN detectedPosition.label ELSE f.label,
                  !.category = IF found THEN detectedPosition.category ELSE f.category]

\* const displayX = isLeftHanded ? 100 - fielder.x : fielder.x   (CricketField.tsx:273)
displayX(fielder, isLH) == IF isLH THEN 100 - fielder.x ELSE fielder.x

\* onMouseDown(fielder.id); onSelect(fielder.id)   (CricketField.tsx:283-284)
handleMouseDown(id) ==
    /\ findById(fielders, id) # 0
    /\ draggingId' = id
    /\ selectedId' = id
    /\ lastEvent' = "down"
    /\ UNCHANGED <<fielders, currentPreset, isLeftHanded, history, historyIndex,
                   skipHistoryRef, histSerial, pushCount>>

\* every token is taken for the dragged one
isDragged_All(f, id) == f.id = f.id

\* f.id === draggingId
isDragged(f, id) == f.id = id

\* x, y: the pointer position as a percentage of the field's width and height
handleMouseMove(x, y) ==
    /\ lastEvent' = "move"
    /\ IF draggingId = NULL
       THEN UNCHANGED fielders
       ELSE LET clampedX == clamp(x)
                clampedY == clamp(y)
                storedX == toStoredX(clampedX, isLeftHanded)
                detectedPosition == detectPosition(storedX, clampedY, isLeftHanded)
            IN  fielders' = [i \in 1..Len(fielders) |->
                                IF isDragged(fielders[i], draggingId)
                                THEN movedFielder(fielders[i], storedX, clampedY,
                                                  detectedPosition)
                                ELSE fielders[i]]
    /\ UNCHANGED <<currentPreset, isLeftHanded, draggingId, selectedId, history,
                   historyIndex, skipHistoryRef, histSerial, pushCount>>

\* also the field's onMouseLeave and onTouchEnd (CricketField.tsx:189-192)
handleMouseUp ==
    /\ lastEvent' = "up"
    /\ IF draggingId # NULL
       THEN addToHistory(fielders, isLeftHanded)
       ELSE UNCHANGED <<history, historyIndex, skipHistoryRef, histSerial, pushCount>>
    /\ draggingId' = NULL
    /\ UNCHANGED <<fielders, currentPreset, isLeftHanded, selectedId>>

\* only the name is overwritten
renamedFielder_NameOnly(f, newName) == [f EXCEPT !.name = newName]

\* { ...f, name: newName, label: newName }
renamedFielder(f, newName) == [f EXCEPT !.name = newName, !.label = newName]

handleRenameFielder(id, newName) ==
    LET newFielders == [i \in 1..Len(fielders) |->
                           IF fielders[i].id = id
                           THEN renamedFielder(fielders[i], newName)
                           ELSE fielders[i]]
    IN  /\ fielders' = newFielders
        /\ addToHistory(newFielders, isLeftHanded)
        /\ lastEvent' = "rename"
        /\ UNCHANGED <<currentPreset, isLeftHanded, draggingId, selectedId>>

\* setFielders(setup.fielders); setIsLeftHanded(setup.isLeftHanded);
\* setCurrentPreset('custom'); addToHistory(setup.fielders, setup.isLeftHanded)
handleLoadSetup(setup) ==
    /\ fielders' = setup.fielders
    /\ isLeftHanded' = setup.isLeftHanded
    /\ currentPreset' = "custom"
    /\ addToHistory(setup.fielders, setup.isLeftHanded)
    /\ lastEvent' = "load"
    /\ UNCHANGED <<draggingId, selectedId>>

\* a click on a row of the fielder panel: onSelect(fielder.id), bound to
\* setSelectedId
selectFielder(id) ==
    /\ selectedId' = id
    /\ lastEvent' = "select"
    /\ UNCHANGED <<fielders, currentPreset, isLeftHanded, draggingId, history,
                   historyIndex, skipHistoryRef, histSerial, pushCount>>

\* the deselection is recorded as a snapshot
clearSelection_Push ==
    /\ selectedId' = NULL
    /\ lastEvent' = "deselect"
    /\ addToHistory(fielders, isLeftHanded)
    /\ UNCHANGED <<fielders, currentPreset, isLeftHanded, draggingId>>

\* if (e.key === 'Escape') onSelect(null), and the field's onClick
clearSelection ==
    /\ selectedId' = NULL
    /\ lastEvent' = "deselect"
    /\ UNCHANGED <<fielders, currentPreset, isLeftHanded, draggingId, history,
                   historyIndex, skipHistoryRef, histSerial, pushCount>>

-----------------------------------------------------------------------------
(* The rename input of the fielder panel: FielderPanel.tsx *)

\* The text of the rename input is held as its sequence of UTF-16 code
\* units, so that every character a user can type or paste has a place in
\* it.  A name of the scene is held as a string: a character of Plain stands
\* for itself, any other code unit u is written as a backslash, the decimal
\* digits of u and a semicolon.

\* the characters that stand for themselves, in the order of their code units
Plain == " !\"#$%&'()*+,-./0123456789:;<=>?@ABCDEFGHIJKLMNOPQRSTUVWXYZ[]^_abcdefghijklmnopqrstuvwxyz{|}~"

\* the code unit of Plain's i-th character: 32..91, 93..95, 97..126
plainCode(i) == IF i <= 60 THEN 31 + i ELSE IF i <= 63 THEN 32 + i ELSE 33 + i

Digits == "0123456789"

\* the first position from i on of the one-character string c in str, 0 if
\* it is not there
indexIn(c, str, i) ==
    LET hits == {k \in i..Len(str) : SubSeq(str, k, k) = c}
    IN  IF hits = {} THEN 0 ELSE CHOOSE k \in hits : \A m \in hits : k <= m

\* the number written by the decimal digits of str, read after acc
RECURSIVE decimal(_, _)
decimal(str, acc) ==
    IF Len(str) = 0 THEN acc
    ELSE decimal(SubSeq(str, 2, Len(str)),
                 10 * acc + indexIn(SubSeq(str, 1, 1), Digits, 1) - 1)

\* the string of one code unit
unitString(u) ==
    LET i == CHOOSE k \in 0..Len(Plain) :
                 (k > 0 /\ plainCode(k) = u)
                 \/ (k = 0 /\ \A m \in 1..Len(Plain) : plainCode(m) # u)
    IN  IF i > 0 THEN SubSeq(Plain, i, i) ELSE "\\" \o ToString(u) \o ";"

\* the string of a text: what the panel hands to onRename
RECURSIVE fromCharCodes(_)
fromCharCodes(units) ==
    IF Len(units) = 0 THEN ""
    ELSE unitString(Head(units)) \o fromCharCodes(Tail(units))

\* the text of a string: what setEditValue(fielder.name) puts into the input
RECURSIVE charCodes(_)
charCodes(str) ==
    IF Len(str) = 0 THEN << >>
    ELSE IF SubSeq(str, 1, 1) = "\\"
         THEN LET end == indexIn(";", str, 2)
              IN  <<decimal(SubSeq(str, 2, end - 1), 0)>>
                      \o charCodes(SubSeq(str, end + 1, Len(str)))
         ELSE <<plainCode(indexIn(SubSeq(str, 1, 1), Plain, 1))>>
                  \o charCodes(SubSeq(str, 2, Len(str)))

\* the code units String.prototype.trim strips: ECMAScript WhiteSpace (tab,
\* vertical tab, form feed, space, no-break space, U+FEFF and the space
\* separators U+1680, U+2000..U+200A, U+202F, U+205F, U+3000) and
\* LineTerminator (line feed, carriage return, U+2028, U+2029)
WhiteSpace ==
    {9, 10, 11, 12, 13, 32, 160, 5760} \cup (8192..8202)
        \cup {8232, 8233, 8239, 8287, 12288, 65279}

RECURSIVE trimStart(_)
trimStart(s) ==
    IF Len(s) > 0 /\ Head(s) \in WhiteSpace
    THEN trimStart(Tail(s))
    ELSE s

RECURSIVE trimEnd(_)
trimEnd(s) ==
    IF Len(s) > 0 /\ s[Len(s)] \in WhiteSpace
    THEN trimEnd(SubSeq(s, 1, Len(s) - 1))
    ELSE s

\* the text is taken as it was typed
trim_None(s) == s

\* String.prototype.trim
trim(s) == trimEnd(trimStart(s))

\* onDoubleClick={(e) => handleStartEdit(fielder, e)}
handleStartEdit(fielder) ==
    /\ editingId' = fielder.id
    /\ editValue' = charCodes(fielder.name)
    /\ lastEvent' = "startEdit"
    /\ UNCHANGED <<fielders, currentPreset, isLeftHanded, draggingId, selectedId,
                   history, historyIndex, skipHistoryRef, histSerial, pushCount>>

\* onChange={(e) => setEditValue(e.target.value)}
setEditValue(value) ==
    /\ editValue' = value
    /\ lastEvent' = "changeEdit"
    /\ UNCHANGED editingId
    /\ UNCHANGED <<fielders, currentPreset, isLeftHanded, draggingId, selectedId,
                   history, historyIndex, skipHistoryRef, histSerial, pushCount>>

\* Enter in the input, and the input's onBlur
handleSaveEdit ==
    /\ IF editingId # NULL /\ trim(editValue) # << >>
       THEN handleRenameFielder(editingId, fromCharCodes(trim(editValue)))
       ELSE /\ lastEvent' = "saveEdit"
            /\ UNCHANGED <<fielders, currentPreset, isLeftHanded, draggingId, selectedId,
                           history, historyIndex, skipHistoryRef, histSerial, pushCount>>
    /\ editingId' = NULL
    /\ editValue' = << >>

\* Escape in the input: handleKeyDown closes the input, and the key press
\* goes on to the window listener of CricketField.tsx:175-181, onSelect(null)
cancelEdit ==
    /\ editingId' = NULL
    /\ editValue' = << >>
    /\ selectedId' = NULL
    /\ lastEvent' = "cancelEdit"
    /\ UNCHANGED <<fielders, currentPreset, isLeftHanded, draggingId,
                   history, historyIndex, skipHistoryRef, histSerial, pushCount>>

InitPanel ==
    /\ editingId = NULL
    /\ editValue = << >>

-----------------------------------------------------------------------------
(* Saved setups: storage.ts.  A JavaScript value is a record tagged with   *)
(* its type; a stored text is missing, empty, malformed, or JSON, and a    *)
(* JSON text is held as its syntax tree.                                    *)

JsUndefined == [t |-> "undefined"]
JsNull == [t |-> "null"]
JsBool(b) == [t |-> "boolean", v |-> b]
JsNum(n) == [t |-> "number", v |-> n]
JsStr(str) == [t |-> "string", v |-> str]
JsArr(items) == [t |-> "array", v |-> items]
JsObj(props) == [t |-> "object", v |-> props]

\* a === b for values that are not both objects or arrays
strictEquals(a, b) ==
    /\ a.t = b.t
    /\ a.t \in {"boolean", "number", "string"} => a.v = b.v
    /\ a.t \notin {"object", "array"}

\* the syntax tree of the JSON text of a value; an undefined array element
\* is written as null, an undefined property is left out
RECURSIVE stringifyNode(_)
stringifyNode(val) ==
    CASE val.t \in {"null", "undefined"} -> [j |-> "null"]
      [] val.t = "boolean" -> IF val.v THEN [j |-> "true"] ELSE [j |-> "false"]
      [] val.t = "number" -> [j |-> "number", n |-> val.v]
      [] val.t = "string" -> [j |-> "string", s |-> val.v]
      [] val.t = "array" ->
            [j |-> "array", items |-> [i \in 1..Len(val.v) |-> stringifyNode(val.v[i])]]
      [] val.t = "object" ->
            [j |-> "object",
             members |-> [k \in {m \in DOMAIN val.v : val.v[m].t # "undefined"} |->
                             stringifyNode(val.v[k])]]

\* the value a JSON syntax tree denotes
RECURSIVE parseNode(_)
parseNode(node) ==
    CASE node.j = "null" -> JsNull
      [] node.j = "true" -> JsBool(TRUE)
      [] node.j = "false" -> JsBool(FALSE)
      [] node.j = "number" -> JsNum(node.n)
      [] node.j = "string" -> JsStr(node.s)
      [] node.j = "array" ->
            JsArr([i \in 1..Len(node.items) |-> parseNode(node.items[i])])
      [] node.j = "object" ->
            JsObj([k \in DOMAIN node.members |-> parseNode(node.members[k])])

\* JSON.stringify(value)
JSON_stringify(val) == [kind |-> "json", json |-> stringifyNode(val)]

\* JSON.parse(text) throws a SyntaxError
parseThrows(text) == text.kind # "json"

\* JSON.parse(text)
JSON_parse(text) == parseNode(text.json)

\* data ? ... : ...   for the result of localStorage.getItem
isTruthy(data) == data.kind \notin {"missing", "empty"}

getSavedSetups ==
    LET data == storage
    IN  IF isTruthy(data)
        THEN IF parseThrows(data) THEN JsArr(<< >>) ELSE JSON_parse(data)
        ELSE JsArr(<< >>)

\* the Fielder objects of the scene, as values
jsFielder(f) ==
    JsObj([id |-> JsStr(f.id), name |-> JsStr(f.name), label |-> JsStr(f.label),
           x |-> JsNum(f.x), y |-> JsNum(f.y), category |-> JsStr(f.category),
           isActive |-> JsBool(f.isActive)])

jsFielders(scene) == JsArr([i \in 1..Len(scene) |-> jsFielder(scene[i])])

\* `setup-${Date.now()}-${Math.random().toString(36).substr(2, 9)}`
makeId(now, random) == "setup-" \o ToString(now) \o "-" \o random

\* the object literal of saveSetup; idTime and createdAt are two readings of the clock
newSetupOf(name, scene, isLH, idTime, random, createdAt) ==
    JsObj([id |-> JsStr(makeId(idTime, random)), name |-> JsStr(name),
           fielders |-> jsFielders(scene), isLeftHanded |-> JsBool(isLH),
           createdAt |-> JsNum(createdAt)])

\* s.id
propId(val) ==
    IF val.t = "object" /\ "id" \in DOMAIN val.v THEN val.v.id ELSE JsUndefined

\* reading a property of null or undefined throws a TypeError
propThrows(val) == val.t \in {"null", "undefined"}

Call(op, args, before, threw, result) ==
    [op |-> op, args |-> args, before |-> before, threw |-> threw, result |-> result]

\* a call of getSavedSetups from the setups dialog
callGetSavedSetups ==
    /\ lastCall' = Call("get", JsUndefined, getSavedSetups, FALSE, getSavedSetups)
    /\ UNCHANGED storage

\* setups.push is a function of arrays only: a TypeError otherwise
saveSetup(name, scene, isLH, idTime, random, createdAt) ==
    LET setups == getSavedSetups
        newSetup == newSetupOf(name, scene, isLH, idTime, random, createdAt)
        args == [name |-> name, fielders |-> scene, isLeftHanded |-> isLH]
    IN  IF setups.t # "array"
        THEN /\ lastCall' = Call("save", args, setups, TRUE, JsUndefined)
             /\ UNCHANGED storage
        ELSE /\ storage' = JSON_stringify(JsArr(Append(setups.v, newSetup)))
             /\ lastCall' = Call("save", args, setups, FALSE, newSetup)

\* getSavedSetups().filter(s => s.id !== id): a TypeError if the value has
\* no filter or an element has no properties
deleteSetup(id) ==
    LET all == getSavedSetups
        args == [id |-> id]
    IN  IF all.t # "array" \/ \E i \in 1..Len(all.v) : propThrows(all.v[i])
        THEN /\ lastCall' = Call("delete", args, all, TRUE, JsUndefined)
             /\ UNCHANGED storage
        ELSE LET setups == SelectSeq(all.v,
                               LAMBDA el : ~strictEquals(propId(el), JsStr(id)))
             IN  /\ storage' = JSON_stringify(JsArr(setups))
                 /\ lastCall' = Call("delete", args, all, FALSE, JsUndefined)

-----------------------------------------------------------------------------
(* Inputs of the application specification.  No handler looks at whether a *)
(* drag is under way, so every operation is available at any time.  A run  *)
(* takes at most MaxPush snapshots; while a token is held, one of them is  *)
(* kept for its release.                                                   *)

\* the preset picked in the selector
PresetIds == {"spin"}

\* the tokens the user drags and renames
TokenIds == {"point"}

\* the pointer position of a move, in percent of the field: right of and
\* above the field
RawPoints == {<<110, -5>>}

NewNames == {"Sweeper Bob"}

\* the scene of the setups the load dialog lists: the standard field with
\* point dropped on the Sweeper position, saved for a left-hander
savedScene ==
    LET scene == getPresetFielders("standard")
    IN  [i \in 1..Len(scene) |->
            IF scene[i].id = "point"
            THEN [scene[i] EXCEPT !.x = 90, !.y = 48, !.name = "Sweeper",
                                  !.label = "Sweeper", !.category = "boundary"]
            ELSE scene[i]]

\* SavedSetup without the fields handleLoadSetup does not read
LoadableSetups == {[fielders |-> savedScene, isLeftHanded |-> TRUE]}

\* snapshots a run may still take before the release of the token held
pushesLeft == MaxPush - pushCount - (IF draggingId # NULL THEN 1 ELSE 0)

InitApp ==
    /\ catalog = ALL_POSITIONS
    /\ fielders = getPresetFielders("standard")
    /\ currentPreset = "standard"
    /\ isLeftHanded = FALSE
    /\ draggingId = NULL
    /\ selectedId = NULL
    /\ history = <<HistoryState(getPresetFielders("standard"), FALSE)>>
    /\ historyIndex = 0
    /\ skipHistoryRef = FALSE
    /\ histSerial = <<0>>
    /\ pushCount = 0
    /\ lastEvent = "init"

InitProbe ==
    /\ px = 0
    /\ py = 0
    /\ pMirrored = FALSE
    /\ pResult = nullPosition
    /\ pc = "idle"

InitStore ==
    /\ storage = [kind |-> "missing"]
    /\ lastCall = Call("none", JsUndefined, JsUndefined, FALSE, JsUndefined)

Init == InitApp /\ InitProbe /\ InitPanel /\ InitStore

PresetChange == \E p \in PresetIds :
    pushesLeft > 0 /\ handlePresetChange(p)
        /\ UNCHANGED <<probeVars, panelVars, storeVars, refVars>>

ToggleHandedness ==
    pushesLeft > 0 /\ handleToggleHandedness
        /\ UNCHANGED <<probeVars, panelVars, storeVars, refVars>>

Undo == handleUndo /\ UNCHANGED <<probeVars, panelVars, storeVars, refVars>>

Redo == handleRedo /\ UNCHANGED <<probeVars, panelVars, storeVars, refVars>>

MouseDown == \E id \in TokenIds :
    (draggingId # NULL \/ pushesLeft > 0) /\ handleMouseDown(id)
        /\ UNCHANGED <<probeVars, panelVars, storeVars, refVars>>

\* the move is written into the catalog entry the token was made from
MouseMove_InPlace == \E p \in RawPoints :
    /\ draggingId # NULL
    /\ handleMouseMove(p[1], p[2])
    /\ catalog' = [i \in 1..Len(catalog) |->
                      IF catalog[i].id = draggingId
                      THEN [catalog[i] EXCEPT !.x = toStoredX(clamp(p[1]), isLeftHanded),
                                              !.y = clamp(p[2])]
                      ELSE catalog[i]]
    /\ UNCHANGED <<probeVars, panelVars, storeVars>>

MouseMove == \E p \in RawPoints :
    draggingId # NULL /\ handleMouseMove(p[1], p[2]) /\ UNCHANGED <<probeVars, panelVars, storeVars, refVars>>

StrayMouseMove == \E p \in RawPoints :
    draggingId = NULL /\ handleMouseMove(p[1], p[2]) /\ UNCHANGED <<probeVars, panelVars, storeVars, refVars>>

MouseUp == handleMouseUp /\ UNCHANGED <<probeVars, panelVars, storeVars, refVars>>

Rename == \E id \in TokenIds, n \in NewNames :
    pushesLeft > 0 /\ handleRenameFielder(id, n)
        /\ UNCHANGED <<probeVars, panelVars, storeVars, refVars>>

ClearSelection == clearSelection /\ UNCHANGED <<probeVars, panelVars, storeVars, refVars>>

LoadSetup == \E setup \in LoadableSetups :
    pushesLeft > 0 /\ handleLoadSetup(setup)
        /\ UNCHANGED <<probeVars, panelVars, storeVars, refVars>>

RowClick == \E i \in 1..Len(fielders) :
    /\ fielders[i].id \in TokenIds
    /\ selectFielder(fielders[i].id)
    /\ UNCHANGED <<probeVars, panelVars, storeVars, refVars>>

Next ==
    \/ PresetChange
    \/ ToggleHandedness
    \/ Undo
    \/ Redo
    \/ MouseDown
    \/ MouseMove
    \/ StrayMouseMove
    \/ MouseUp
    \/ Rename
    \/ ClearSelection
    \/ LoadSetup
    \/ RowClick

Spec == Init /\ [][Next]_vars

-----------------------------------------------------------------------------
(* The detector alone: one call on every grid point, in both orientations *)

InitDetect ==
    /\ InitApp
    /\ px \in 0..GridMax
    /\ py \in 0..GridMax
    /\ pMirrored \in BOOLEAN
    /\ pResult = nullPosition
    /\ pc = "call"
    /\ InitPanel
    /\ InitStore

Detect ==
    /\ pc = "call"
    /\ pResult' = detectPosition(px, py, pMirrored)
    /\ pc' = "done"
    /\ UNCHANGED <<px, py, pMirrored>>
    /\ UNCHANGED <<appVars, panelVars, storeVars, refVars>>

NextDetect == Detect

SpecDetect == InitDetect /\ [][NextDetect]_vars

-----------------------------------------------------------------------------
(* The history alone: clicks on a token (a drag without a move pushes the  *)
(* current scene), undo and redo.  A click away from the newest entry      *)
(* starts a new branch of the history; the branches explored are those     *)
(* that start within the first or the last MaxBranchPush snapshots of a    *)
(* run.                                                                    *)

\* snapshots at either end of a run within which a branch may start
MaxBranchPush == 2

HistMouseDown ==
    /\ pushCount < MaxHistPush
    /\ \/ historyIndex = Len(history) - 1
       \/ pushCount < MaxBranchPush
       \/ pushCount >= MaxHistPush - MaxBranchPush
    /\ handleMouseDown("wk")
    /\ UNCHANGED <<probeVars, panelVars, storeVars, refVars>>

NextHistory ==
    \/ HistMouseDown
    \/ MouseUp
    \/ Undo
    \/ Redo

SpecHistory == Init /\ [][NextHistory]_vars

-----------------------------------------------------------------------------
(* The presets alone: every preset of the selector and an id that is not   *)
(* in the table, with the orientation button, undo and redo.               *)

KnownPresetIds == {"standard", "attacking", "defensive", "powerplay", "death", "spin"}

AllPresetIds == KnownPresetIds \cup {"no-such-preset"}

AnyPresetChange == \E p \in AllPresetIds :
    pushesLeft > 0 /\ handlePresetChange(p)
        /\ UNCHANGED <<probeVars, panelVars, storeVars, refVars>>

NextPresets ==
    \/ AnyPresetChange
    \/ ToggleHandedness
    \/ Undo
    \/ Redo

SpecPresets == Init /\ [][NextPresets]_vars

-----------------------------------------------------------------------------
(* The fielder panel alone: a click on a token's row selects the token, a  *)
(* double click opens the rename input on the token's name, the user       *)
(* types, and Enter or a blur saves, Escape cancels.                       *)

\* the tokens whose row is double-clicked
PanelTokenIds == {"wk", "point"}

\* what the user leaves in the input: nothing, white space of every kind,
\* and a name with a vertical tab inside, alone and within white space
EditInputs ==
    { << >>, <<32, 9, 32>>, <<11>>, <<65279>>,
      <<12288, 8232, 5760, 160, 10, 12, 13>>,
      <<11, 32>> \o charCodes("Sweeper") \o <<11>> \o charCodes("Bob") \o <<65279, 13>>,
      charCodes("Sweeper") \o <<11>> \o charCodes("Bob") }

StartEdit == \E i \in 1..Len(fielders) :
    /\ fielders[i].id \in PanelTokenIds
    /\ pushCount < MaxPush
    /\ handleStartEdit(fielders[i])
    /\ UNCHANGED <<probeVars, storeVars, refVars>>

PanelRowClick == \E i \in 1..Len(fielders) :
    /\ fielders[i].id \in PanelTokenIds
    /\ selectFielder(fielders[i].id)
    /\ UNCHANGED <<probeVars, panelVars, storeVars, refVars>>

ChangeEdit == \E value \in EditInputs :
    /\ editingId # NULL
    /\ setEditValue(value)
    /\ UNCHANGED <<probeVars, storeVars, refVars>>

SaveEdit ==
    /\ editingId # NULL
    /\ handleSaveEdit
    /\ UNCHANGED <<probeVars, storeVars, refVars>>

CancelEdit ==
    /\ editingId # NULL
    /\ cancelEdit
    /\ UNCHANGED <<probeVars, storeVars, refVars>>

NextPanel ==
    \/ PanelRowClick
    \/ StartEdit
    \/ ChangeEdit
    \/ SaveEdit
    \/ CancelEdit
    \/ Undo
    \/ Redo

SpecPanel == Init /\ [][NextPanel]_vars

-----------------------------------------------------------------------------
(* The saved setups alone: the stored item starts as anything a browser    *)
(* may hold under the key; the dialog lists, saves the current scene and   *)
(* deletes, and the orientation button changes what is saved.              *)

\* setups a save may find stored
MaxSetups == 2

SetupNames == {"Opening", "Death"}

\* readings of Date.now()
Times == {1, 2}

\* Math.random().toString(36).substr(2, 9)
RandomTails == {"k3j9x0q2a"}

StoredTexts ==
    { [kind |-> "missing"],
      [kind |-> "empty"],
      [kind |-> "malformed"],
      JSON_stringify(JsObj(<< >>)),
      JSON_stringify(JsNull),
      JSON_stringify(JsArr(<< >>)),
      JSON_stringify(JsArr(<<JsNull>>)),
      JSON_stringify(JsArr(<<newSetupOf("Opening", getPresetFielders("standard"),
                                         FALSE, 1, "k3j9x0q2a", 1)>>)) }

DeleteIds == {makeId(now, random) : now \in Times, random \in RandomTails}
                 \cup {"setup-0-none"}

InitStorage ==
    /\ InitApp
    /\ InitProbe
    /\ InitPanel
    /\ storage \in StoredTexts
    /\ lastCall = Call("none", JsUndefined, JsUndefined, FALSE, JsUndefined)

GetSavedSetups ==
    /\ callGetSavedSetups
    /\ UNCHANGED <<appVars, probeVars, panelVars, refVars>>

SaveSetup == \E name \in SetupNames, idTime \in Times, random \in RandomTails,
                createdAt \in Times :
    /\ idTime <= createdAt
    /\ getSavedSetups.t = "array" => Len(getSavedSetups.v) < MaxSetups
    /\ saveSetup(name, fielders, isLeftHanded, idTime, random, createdAt)
    /\ UNCHANGED <<appVars, probeVars, panelVars, refVars>>

DeleteSetup == \E id \in DeleteIds :
    /\ deleteSetup(id)
    /\ UNCHANGED <<appVars, probeVars, panelVars, refVars>>

NextStorage ==
    \/ GetSavedSetups
    \/ SaveSetup
    \/ DeleteSetup
    \/ ToggleHandedness

SpecStorage == InitStorage /\ [][NextStorage]_vars

-----------------------------------------------------------------------------
(* The keeper and the bowler alone: their markers take the same mouse      *)
(* handlers as every other marker (CricketField.tsx:283-284), so they are  *)
(* dragged, dropped, and the drops undone and redone.                      *)

FixedRoleIds == {"wk", "bowler"}

\* pointer positions of the moves: outside the field, and on the catalog
\* coordinate of Mid Wicket
FixedRolePoints == {<<110, -5>>, <<72, 52>>}

FixedRoleMouseMove == \E p \in FixedRolePoints :
    /\ draggingId # NULL
    /\ handleMouseMove(p[1], p[2])
    /\ UNCHANGED <<probeVars, panelVars, storeVars, refVars>>

FixedRoleMouseDown == \E id \in FixedRoleIds :
    /\ draggingId # NULL \/ pushesLeft > 0
    /\ handleMouseDown(id)
    /\ UNCHANGED <<probeVars, panelVars, storeVars, refVars>>

NextFixedRoles ==
    \/ FixedRoleMouseDown
    \/ FixedRoleMouseMove
    \/ MouseUp
    \/ Undo
    \/ Redo

SpecFixedRoles == Init /\ [][NextFixedRoles]_vars

-----------------------------------------------------------------------------
(* Properties of the detector, under SpecDetect *)

Categories == {"keeper", "bowler", "slip", "close", "ring", "boundary"}

\* the x coordinate the probe's detection works on
probeX == IF pMirrored THEN 100 - px ELSE px

\* the catalog entries that take part in the search
Candidates == {i \in 1..Len(ALL_POSITIONS) : ALL_POSITIONS[i].id \notin {"wk", "bowler"}}

probeDist2(i) == Dist2(probeX, py, ALL_POSITIONS[i].x, ALL_POSITIONS[i].y)

\* the candidates nearest to the probe point, and the first of them in catalog order
Nearest == {i \in Candidates : \A j \in Candidates : probeDist2(i) <= probeDist2(j)}

FirstNearest == CHOOSE i \in Nearest : \A j \in Nearest : i <= j

\* no candidate is strictly nearer than the snap threshold
ProbeFallsBack == \A i \in Candidates : probeDist2(i) >= SNAP_DISTANCE * SNAP_DISTANCE

ProbeInsideCircle ==
    Dist2(probeX, py, CIRCLE_CENTER_X, CIRCLE_CENTER_Y) <= CIRCLE_RADIUS * CIRCLE_RADIUS

EntryResult(i) ==
    Zone(ALL_POSITIONS[i].name, ALL_POSITIONS[i].label, ALL_POSITIONS[i].category)

\* C1: with the mirror flag off, detection at the exact coordinate of a catalog
\* entry other than the keeper and the bowler returns that entry's name, label
\* and category.
C1_ExactCatalogHit ==
    \A i \in Candidates :
        (pc = "done" /\ ~pMirrored /\ px = ALL_POSITIONS[i].x /\ py = ALL_POSITIONS[i].y)
            => pResult = EntryResult(i)

\* detection at the catalog coordinate of 'cover' has answered Cover, ring
C1_Witness ==
    /\ pc = "done" /\ ~pMirrored /\ px = 28 /\ py = 52
    /\ pResult = Zone("Cover", "Cover", "ring")

\* C2: detectPosition(x, y, true) returns what detectPosition(100 - x, y, false)
\* returns.
C2_MirrorEquivalence ==
    (pc = "done" /\ pMirrored) => pResult = detectPosition(100 - px, py, FALSE)

\* a mirrored detection at the mirror image of 'cover' has answered Cover
C2_Witness ==
    /\ pc = "done" /\ pMirrored /\ px = 72 /\ py = 52
    /\ pResult = Zone("Cover", "Cover", "ring")

\* C3: detectPosition always returns a result: not null, with a non-empty name,
\* a non-empty label and a category.
C3_AlwaysResult ==
    pc = "done" =>
        /\ pResult # nullPosition
        /\ pResult.name # ""
        /\ pResult.label # ""
        /\ pResult.category \in Categories

\* a point near no catalog entry has been given a synthesized name
C3_Witness ==
    /\ pc = "done" /\ px = 50 /\ py = 50 /\ ProbeFallsBack
    /\ pResult = Zone("Mid Wicket", "Mid Wkt", "ring")

\* C4: detectPosition never returns the keeper's or the bowler's name or
\* category, not even at their catalog coordinates.
C4_NoFixedRole ==
    pc = "done" =>
        /\ pResult.name \notin {"Wicketkeeper", "Bowler"}
        /\ pResult.category \notin {"keeper", "bowler"}

\* detection exactly at the keeper's coordinate has answered with another entry
C4_Witness ==
    /\ pc = "done" /\ ~pMirrored /\ px = 50 /\ py = 30
    /\ pResult.name = "1st Slip"

\* C5: when the least distance to the candidates is below the snap threshold the
\* result is the first nearest candidate in catalog order; otherwise it is the
\* regional fallback.
C5_NearestFirstOrFallback ==
    pc = "done" =>
        IF probeDist2(FirstNearest) < SNAP_DISTANCE * SNAP_DISTANCE
        THEN pResult = EntryResult(FirstNearest)
        ELSE pResult = getRegionalPosition(probeX, py)

\* two candidates are equally near, within the threshold, and the earlier one
\* of the catalog has been returned
C5_Witness ==
    /\ pc = "done" /\ ~pMirrored /\ px = 50 /\ py = 30
    /\ Cardinality(Nearest) = 2
    /\ probeDist2(FirstNearest) < SNAP_DISTANCE * SNAP_DISTANCE
    /\ pResult = EntryResult(FirstNearest)
    /\ \E j \in Nearest : j # FirstNearest /\ EntryResult(j) # pResult

\* the first y band that matches, top-down: 1 for y < 25, ..., 6 for the rest
BandLimits == <<25, 35, 50, 65, 80>>

bandOf(y) ==
    IF \E b \in 1..Len(BandLimits) : y < BandLimits[b]
    THEN CHOOSE b \in 1..Len(BandLimits) :
             y < BandLimits[b] /\ \A c \in 1..(b - 1) : ~(y < BandLimits[c])
    ELSE Len(BandLimits) + 1

\* side, band and circle of a point
cellOf(x, y) ==
    [leg |-> x >= 50, band |-> bandOf(y),
     inside |-> (x - 50) * (x - 50) + (y - 50) * (y - 50) <= 784]

\* one fallback point of every side, band and circle that has fallback points
CellPoints ==
    { <<0, 0>>, <<0, 25>>, <<0, 35>>, <<41, 48>>, <<0, 50>>, <<43, 50>>, <<0, 65>>,
      <<42, 76>>, <<0, 80>>, <<50, 0>>, <<80, 25>>, <<98, 35>>, <<50, 45>>, <<75, 64>>,
      <<50, 50>>, <<50, 79>>, <<50, 65>>, <<50, 80>> }

\* C29 as stated: in the fallback path the name is determined by the side
\* (x = 50 being leg side) and the first matching y band, with the circle for
\* Point and Deep Point: two fallback points of one side, band and circle
\* get one name, and an off-side point with 35 <= y < 50 is named Point
\* inside the circle and Deep Point outside.
C29_NameBySideAndBand ==
    (pc = "done" /\ ProbeFallsBack) =>
        /\ pResult.name # ""
        /\ \A q \in CellPoints :
               cellOf(q[1], q[2]) = cellOf(probeX, py) =>
                   pResult.name = getRegionalPosition(q[1], q[2]).name
        /\ (probeX < 50 /\ 35 <= py /\ py < 50) =>
               pResult.name = IF ProbeInsideCircle THEN "Point" ELSE "Deep Point"

\* the names of a side and band: where a band has two or three, the circle
\* or a limit on x chooses among them
RegionName(leg, band, inside, x) ==
    CASE band = 1 -> IF leg THEN "Fine Leg" ELSE "Third Man"
      [] band = 2 /\ ~leg -> IF x > 35 THEN "Slips Area" ELSE "Gully"
      [] band = 2 /\ leg -> IF x < 60 THEN "Leg Slip" ELSE "Leg Gully"
      [] band = 3 /\ ~leg -> IF inside THEN "Point" ELSE "Deep Point"
      [] band = 3 /\ leg -> IF inside THEN "Square Leg"
                            ELSE IF x > 85 THEN "Sweeper" ELSE "Deep Square Leg"
      [] band = 4 /\ ~leg -> IF inside THEN "Cover" ELSE "Deep Cover"
      [] band = 4 /\ leg -> IF inside THEN "Mid Wicket" ELSE "Deep Mid Wicket"
      [] band = 5 /\ ~leg -> IF inside THEN "Mid Off" ELSE "Deep Mid Off"
      [] band = 5 /\ leg -> IF inside THEN "Mid On"
                            ELSE IF x > 75 THEN "Cow Corner" ELSE "Deep Mid On"
      [] band = 6 /\ ~leg -> "Long Off"
      [] band = 6 /\ leg -> IF x > 75 THEN "Cow Corner" ELSE "Long On"

\* C29, amended: in the fallback path every point gets exactly one name,
\* given by the side (x = 50 being leg side), the first matching y band and,
\* within the band, the circle or an x limit (35, 60, 85, 75): on the leg
\* side beyond x = 75 the bands from y = 65 on are named Cow Corner outside
\* the circle.
C29_NameByRegionTable ==
    (pc = "done" /\ ProbeFallsBack) =>
        LET cell == cellOf(probeX, py)
        IN  /\ pResult.name = RegionName(cell.leg, cell.band, cell.inside, probeX)
            /\ pResult.name # ""
            /\ (probeX < 50 /\ 35 <= py /\ py < 50) =>
                   pResult.name = IF ProbeInsideCircle THEN "Point" ELSE "Deep Point"

\* the fallback at (76, 65), leg side, band 65 to 80, outside the circle,
\* has answered Cow Corner, where (50, 79) of the same cell is Deep Mid On
C29_Witness ==
    /\ pc = "done" /\ ~pMirrored /\ px = 76 /\ py = 65 /\ ProbeFallsBack
    /\ ~ProbeInsideCircle
    /\ pResult.name = "Cow Corner"
    /\ getRegionalPosition(50, 79).name = "Deep Mid On"

\* C30: isInsideCircle(x, y) holds exactly when (x-50)^2 + (y-50)^2 <= 784,
\* the edge of the circle included, for every point and both orientations of
\* the probe; a fallback point outside the band 25 <= y < 35 is classified
\* ring exactly when it satisfies that inequality.
C30_InsideCircleIsDistanceAtMost28 ==
    /\ isInsideCircle(probeX, py) <=> (probeX - 50) * (probeX - 50) + (py - 50) * (py - 50) <= 784
    /\ (pc = "done" /\ ProbeFallsBack /\ ~(25 <= py /\ py < 35)) =>
           (pResult.category = "ring" <=>
               (probeX - 50) * (probeX - 50) + (py - 50) * (py - 50) <= 784)

\* a fallback point exactly on the circle, 28 below the centre, has been
\* classified as inside
C30_Witness ==
    /\ pc = "done" /\ ~pMirrored /\ px = 50 /\ py = 78 /\ ProbeFallsBack
    /\ (px - 50) * (px - 50) + (py - 50) * (py - 50) = 784
    /\ isInsideCircle(px, py)
    /\ pResult = Zone("Mid On", "Mid On", "ring")

\* C6 as stated: on the fallback path the category is ring inside the circle
\* and boundary outside it.
C6_FallbackCategoryByCircle ==
    (pc = "done" /\ ProbeFallsBack) =>
        pResult.category = IF ProbeInsideCircle THEN "ring" ELSE "boundary"

\* C6 amended: on the fallback path the category is ring inside the circle and
\* boundary outside it, except in the band 25 <= y < 35, where it is slip for
\* 35 < adjustedX < 50 and close otherwise.
C6_FallbackCategoryByBand ==
    (pc = "done" /\ ProbeFallsBack) =>
        pResult.category =
            IF 25 <= py /\ py < 35
            THEN (IF 35 < probeX /\ probeX < 50 THEN "slip" ELSE "close")
            ELSE (IF ProbeInsideCircle THEN "ring" ELSE "boundary")

\* a fallback point of the band 25 <= y < 35 outside the circle has been
\* classified close
C6_Witness ==
    /\ pc = "done" /\ ~pMirrored /\ px = 5 /\ py = 30
    /\ ProbeFallsBack /\ ~ProbeInsideCircle
    /\ pResult = Zone("Gully", "Gully", "close")

-----------------------------------------------------------------------------
(* Properties of the scene, under Spec *)

draggedTokens == {i \in 1..Len(fielders) : fielders[i].id = draggingId}

\* C7: in every reachable scene every token's stored x and y lie within [3, 97].
C7_StoredWithinMargins ==
    \A i \in 1..Len(fielders) :
        /\ CLAMP_MIN <= fielders[i].x /\ fielders[i].x <= CLAMP_MAX
        /\ CLAMP_MIN <= fielders[i].y /\ fielders[i].y <= CLAMP_MAX

\* a move whose pointer was right of and above the field, in mirrored
\* orientation, has left the token on both margins
C7_Witness ==
    /\ lastEvent = "move" /\ isLeftHanded /\ draggingId = "point"
    /\ \E i \in draggedTokens : fielders[i].x = CLAMP_MIN /\ fielders[i].y = CLAMP_MIN

\* C8: after a move the dragged token's name, label and category are those of
\* detectPosition(stored.x, stored.y, false), in both orientations.
C8_LabelFromCanonical ==
    (lastEvent = "move" /\ draggingId # NULL) =>
        \A i \in draggedTokens :
            Zone(fielders[i].name, fielders[i].label, fielders[i].category)
                = detectPosition(fielders[i].x, fielders[i].y, FALSE)

\* C10: a completed drag adds exactly one snapshot, the scene and orientation
\* at its end, also after an undo or redo; a move event adds none.
C10_OneSnapshotPerDrag ==
    [][ /\ (draggingId # NULL /\ draggingId' = NULL) =>
            /\ pushCount' = pushCount + 1
            /\ history'[Len(history')] = HistoryState(fielders, isLeftHanded)
            /\ historyIndex' = Len(history') - 1
        /\ (lastEvent' = "move") => UNCHANGED <<history, historyIndex, pushCount>>
      ]_vars

\* C13: a move event changes only the dragged token, and of it only x, y,
\* name, label and category: the number and order of the tokens and every
\* token id stay, every other token keeps all of its fields, and a move event
\* while no drag is in progress changes nothing.
C13_MoveChangesOnlyDragged ==
    [][ lastEvent' = "move" =>
            /\ Len(fielders') = Len(fielders)
            /\ \A i \in 1..Len(fielders) :
                   /\ fielders'[i].id = fielders[i].id
                   /\ fielders'[i].isActive = fielders[i].isActive
                   /\ fielders[i].id # draggingId => fielders'[i] = fielders[i]
            /\ draggingId = NULL => fielders' = fielders
            /\ UNCHANGED <<currentPreset, isLeftHanded, draggingId, selectedId,
                           history, historyIndex, skipHistoryRef>>
      ]_vars

\* 'point' of the standard field is being dragged and has followed the pointer
\* to the clamped corner (97, 3); the ten other tokens are the preset's
C13_Witness ==
    /\ lastEvent = "move" /\ draggingId = "point" /\ ~isLeftHanded
    /\ Len(fielders) = 11
    /\ fielders[6].id = "point" /\ fielders[6].x = 97 /\ fielders[6].y = 3
    /\ \A i \in (1..11) \ {6} : fielders[i] = getPresetFielders("standard")[i]

\* C14: a rename sets the token's name and label both to the new name and
\* leaves its x, y, category and id unchanged; every other token and the
\* token order are unchanged (so also when the new name is the current one).
C14_RenameFrame ==
    [][ lastEvent' = "rename" =>
            \E id \in TokenIds, newName \in NewNames :
                /\ Len(fielders') = Len(fielders)
                /\ \A i \in 1..Len(fielders) :
                       IF fielders[i].id = id
                       THEN /\ fielders'[i].name = newName
                            /\ fielders'[i].label = newName
                            /\ fielders'[i].id = fielders[i].id
                            /\ fielders'[i].x = fielders[i].x
                            /\ fielders'[i].y = fielders[i].y
                            /\ fielders'[i].category = fielders[i].category
                            /\ fielders'[i].isActive = fielders[i].isActive
                       ELSE fielders'[i] = fielders[i]
      ]_vars

\* 'point' was dragged to the corner (97, 3) and then renamed: it carries the
\* new name and label at the dragged coordinate, among the preset's other tokens
C14_Witness ==
    /\ lastEvent = "rename" /\ Len(fielders) = 11
    /\ fielders[6].id = "point"
    /\ fielders[6].name = "Sweeper Bob" /\ fielders[6].label = "Sweeper Bob"
    /\ fielders[6].x = 97 /\ fielders[6].y = 3 /\ fielders[6].category = "boundary"
    /\ \A i \in (1..11) \ {6} : fielders[i] = getPresetFielders("standard")[i]

\* C16: toggling the orientation flips only the mirrored flag: no token's
\* stored x, y, name, label, category or id changes (the mirror shows in the
\* drawn x only), and a second toggle restores the flag over the same scene.
C16_ToggleFlipsOnlyFlag ==
    [][ lastEvent' = "toggle" =>
            /\ isLeftHanded' = ~isLeftHanded
            /\ fielders' = fielders
            /\ \A i \in 1..Len(fielders) :
                   displayX(fielders'[i], isLeftHanded')
                       = 100 - displayX(fielders[i], isLeftHanded)
            /\ UNCHANGED <<currentPreset, draggingId, selectedId>>
      ]_vars

\* two toggles in a row: the flag is back to right-handed and the three
\* snapshots hold one and the same stored scene, the middle one mirrored
C16_Witness ==
    /\ lastEvent = "toggle" /\ pushCount = 2 /\ ~isLeftHanded
    /\ Len(history) = 3 /\ historyIndex = 2
    /\ history[2].isLeftHanded /\ ~history[1].isLeftHanded /\ ~history[3].isLeftHanded
    /\ fielders = getPresetFielders("standard")
    /\ \A i \in 1..3 : history[i].fielders = fielders

\* C17: token ids are unique within the scene in every reachable state, after
\* any sequence of preset changes, moves, renames, toggles, undo and redo.
C17_UniqueIds ==
    \A i, j \in 1..Len(fielders) : fielders[i].id = fielders[j].id => i = j

\* the spin field, 'point' dragged to the corner, the drag undone and redone:
\* eleven tokens with eleven ids
C17_Witness ==
    /\ lastEvent = "redo" /\ currentPreset = "spin" /\ historyIndex = 2
    /\ Len(fielders) = 11
    /\ Cardinality({fielders[i].id : i \in 1..11}) = 11
    /\ \E i \in 1..11 : fielders[i].id = "point" /\ fielders[i].x = 97 /\ fielders[i].y = 3

\* C18: a release of the pointer, or its leaving the field, during a drag
\* finalizes the drag: draggingId becomes null, the token stays where the last
\* move put it, and that scene is the committed entry of the history; with no
\* drag active, later move events do not move a token.
C18_DragFinalized ==
    [][ /\ (lastEvent' = "up" /\ draggingId # NULL) =>
            /\ draggingId' = NULL
            /\ fielders' = fielders
            /\ history'[historyIndex' + 1] = HistoryState(fielders', isLeftHanded')
        /\ (lastEvent' = "move" /\ draggingId = NULL) => fielders' = fielders
      ]_vars

\* the text holds nothing but white space
isBlank(s) == \A i \in 1..Len(s) : s[i] \in WhiteSpace

\* C15: a rename with empty or whitespace-only input is rejected: the token's
\* name and label stay, the scene is unchanged and no history entry is added.
C15_BlankRenameRejected ==
    [][ (editingId # NULL /\ editingId' = NULL /\ lastEvent' # "cancelEdit"
            /\ isBlank(editValue)) =>
            /\ fielders' = fielders
            /\ history' = history
            /\ historyIndex' = historyIndex
            /\ pushCount' = pushCount
            /\ lastEvent' = "saveEdit"
      ]_vars

\* a save was refused after an accepted rename of 'point' to a name with a
\* vertical tab inside: the scene still carries that rename and the history
\* its single push
C15_Witness ==
    /\ lastEvent = "saveEdit" /\ editingId = NULL /\ editValue = << >>
    /\ pushCount = 1 /\ Len(history) = 2 /\ historyIndex = 1
    /\ fielders[6].id = "point"
    /\ fielders[6].name = "Sweeper\\11;Bob" /\ fielders[6].label = "Sweeper\\11;Bob"
    /\ charCodes(fielders[6].name) = charCodes("Sweeper") \o <<11>> \o charCodes("Bob")
    /\ history[2].fielders = fielders

\* C21: the escape binding clears the selection and is not part of the
\* history: selectedId becomes null, and the scene, the orientation, the
\* history list and the history index are unchanged.
C21_EscapeOnlyDeselects ==
    [][ lastEvent' = "deselect" =>
            /\ selectedId' = NULL
            /\ UNCHANGED <<fielders, isLeftHanded, history, historyIndex,
                           skipHistoryRef, pushCount, draggingId, currentPreset>>
      ]_vars

\* 'point' was dragged to the corner and dropped, then Escape: nothing is
\* selected, and the history still ends with the drop
C21_Witness ==
    /\ lastEvent = "deselect" /\ selectedId = NULL /\ draggingId = NULL
    /\ pushCount = 1 /\ Len(history) = 2 /\ historyIndex = 1
    /\ Len(fielders) = 11
    /\ fielders[6].id = "point" /\ fielders[6].x = 97 /\ fielders[6].y = 3
    /\ history[2].fielders = fielders

\* C22: whenever no drag is in progress, the current scene and orientation
\* equal the snapshot at history[historyIndex].
C22_CurrentIsSnapshot ==
    draggingId = NULL => historyAt(historyIndex) = HistoryState(fielders, isLeftHanded)

\* a step that commits: a preset change, a toggle, a rename or the end of a drag
commits ==
    \/ lastEvent' \in {"preset", "toggle", "rename"}
    \/ lastEvent' = "up" /\ draggingId # NULL

\* an undo or redo was the last event, or has taken effect since the last push
afterUndoRedo == lastEvent \in {"undo", "redo"} \/ skipHistoryRef

\* C23: a committing operation performed after undos or redos is recorded as
\* the newest history entry and discards the redo entries: afterwards redo is
\* unavailable and the entry below the newest is the state before it.
C23_CommitAfterUndoRecorded ==
    [][ (afterUndoRedo /\ commits) =>
            /\ historyIndex' = Len(history') - 1
            /\ history'[Len(history')] = HistoryState(fielders', isLeftHanded')
            /\ pushCount' = pushCount + 1
            /\ lastEvent' # "up" =>
                   history'[Len(history') - 1] = HistoryState(fielders, isLeftHanded)
      ]_vars

\* C25: an undo and a redo each restore the tokens and the orientation of
\* their target snapshot and leave the history list as it is; and an undo
\* followed at once by a redo restores the scene and orientation that were
\* current before the undo, the redo reading the entry the undo has left.
C25_UndoRedoRoundTrip ==
    [][ /\ (lastEvent' = "undo" /\ historyIndex > 0) =>
            /\ fielders' = historyAt(historyIndex - 1).fielders
            /\ isLeftHanded' = historyAt(historyIndex - 1).isLeftHanded
            /\ history' = history
            /\ historyIndex' < Len(history') - 1
            /\ history'[(historyIndex' + 1) + 1] = HistoryState(fielders, isLeftHanded)
        /\ (lastEvent' = "redo" /\ historyIndex < Len(history) - 1) =>
            /\ fielders' = historyAt(historyIndex + 1).fielders
            /\ isLeftHanded' = historyAt(historyIndex + 1).isLeftHanded
            /\ history' = history
      ]_vars

\* C26: an undo at the oldest entry and a redo at the newest entry change
\* nothing: scene, orientation, history list, history index and the skip flag
\* stay; and the committing operation that follows such a key press (a preset
\* change, toggle, rename, load or drag release) is recorded as the newest
\* snapshot.  A key press at an end of the history leaves every variable as
\* it was, so a state with lastEvent "undo" at index 0, or "redo" at the
\* newest entry, is exactly a state in which such a key press has just
\* happened.
C26_NoOpThenCommitRecorded ==
    [][ /\ ( \/ lastEvent' = "undo" /\ historyIndex = 0
             \/ lastEvent' = "redo" /\ historyIndex = Len(history) - 1 ) =>
            UNCHANGED <<fielders, isLeftHanded, history, historyIndex, skipHistoryRef,
                        currentPreset, draggingId, selectedId, pushCount>>
        /\ ( /\ \/ lastEvent = "undo" /\ historyIndex = 0
                \/ lastEvent = "redo" /\ historyIndex = Len(history) - 1
             /\ \/ lastEvent' \in {"preset", "toggle", "rename", "load"}
                \/ lastEvent' = "up" /\ draggingId # NULL ) =>
            /\ pushCount' = pushCount + 1
            /\ historyIndex' = Len(history') - 1
            /\ history'[Len(history')] = HistoryState(fielders', isLeftHanded')
      ]_vars

\* the tokens of a preset made from the catalog as it was written
originalTokens(presetId) ==
    IF \E i \in 1..Len(FIELD_PRESETS) : FIELD_PRESETS[i].id = presetId
    THEN LET ids == (CHOOSE pr \in {FIELD_PRESETS[i] : i \in 1..Len(FIELD_PRESETS)} :
                         pr.id = presetId).fielderIds
         IN  [i \in 1..Len(ids) |->
                 LET pos == CHOOSE c \in {ALL_POSITIONS[k] : k \in 1..Len(ALL_POSITIONS)} :
                                c.id = ids[i]
                 IN  [id |-> pos.id, name |-> pos.name, label |-> pos.label,
                      x |-> pos.x, y |-> pos.y, category |-> pos.category,
                      isActive |-> TRUE]]
    ELSE << >>

\* C28: the catalog is never mutated and tokens are copies of it: after any
\* sequence of moves, renames, toggles, undo and redo the catalog is as it
\* was written, and a preset instantiated then has the catalog's original
\* coordinates, names, labels and categories, as at the first instantiation.
C28_CatalogIntact ==
    /\ catalog = ALL_POSITIONS
    /\ lastEvent = "preset" => fielders = originalTokens(currentPreset)

\* 'point' was dragged to the corner and dropped, then the spin field was
\* chosen: its 'point' is back at the catalog's (26, 42), named Point
C28_Witness ==
    /\ lastEvent = "preset" /\ currentPreset = "spin" /\ pushCount = 2
    /\ Len(history) = 3 /\ Len(fielders) = 11 /\ Len(history[2].fielders) = 11
    /\ history[2].fielders[6].id = "point" /\ history[2].fielders[6].x = 97
    /\ fielders[6].id = "point" /\ fielders[6].x = 26 /\ fielders[6].y = 42
    /\ fielders[6].name = "Point" /\ fielders[6].category = "ring"

-----------------------------------------------------------------------------
(* Properties of the presets, under SpecPresets *)

\* C12: a preset change with an unknown preset id is a no-op for the scene:
\* the current scene is never replaced by an empty scene and no empty scene
\* is recorded in the history.
C12_NoEmptyScene ==
    /\ Len(fielders) > 0
    /\ \A i \in 1..Len(history) : Len(history[i].fielders) > 0

\* the row of the preset table with the given id
presetRow(presetId) == CHOOSE i \in 1..Len(FIELD_PRESETS) : FIELD_PRESETS[i].id = presetId

\* the catalog entry with the given id
catalogEntry(id) == CHOOSE i \in 1..Len(ALL_POSITIONS) : ALL_POSITIONS[i].id = id

\* C11: getPresetFielders returns the empty list for an unknown preset id, and
\* for each of the six presets one token per id of its fielderIds, in that
\* order, each the catalog entry of that id with isActive = true: 11 tokens,
\* the first two being 'wk' and 'bowler'.
C11_PresetTokens ==
    lastEvent = "preset" =>
        IF currentPreset \in KnownPresetIds
        THEN LET ids == FIELD_PRESETS[presetRow(currentPreset)].fielderIds
             IN  /\ Len(fielders) = 11
                 /\ Len(ids) = 11
                 /\ fielders[1].id = "wk" /\ fielders[2].id = "bowler"
                 /\ \A i \in 1..11 :
                        LET pos == ALL_POSITIONS[catalogEntry(ids[i])]
                        IN  /\ fielders[i].id = ids[i]
                            /\ fielders[i].name = pos.name
                            /\ fielders[i].label = pos.label
                            /\ fielders[i].x = pos.x
                            /\ fielders[i].y = pos.y
                            /\ fielders[i].category = pos.category
                            /\ fielders[i].isActive = TRUE
        ELSE fielders = << >>

\* the death preset has been instantiated: 11 active tokens from 'wk' to 'point'
C11_Witness ==
    /\ lastEvent = "preset" /\ currentPreset = "death"
    /\ Len(fielders) = 11
    /\ fielders[1].id = "wk" /\ fielders[9].id = "sweeper" /\ fielders[11].id = "point"
    /\ \A i \in 1..11 : fielders[i].isActive

-----------------------------------------------------------------------------
(* Properties of the saved setups, under SpecStorage *)

\* the stored item is the JSON text of a list
StoredIsList == storage.kind = "json" /\ storage.json.j = "array"

\* the records of a list whose id is not the given one, in the list's order
RECURSIVE withoutId(_, _)
withoutId(items, id) ==
    IF items = << >> THEN << >>
    ELSE LET rest == withoutId(Tail(items), id)
             el == Head(items)
         IN  IF el.t = "object" /\ "id" \in DOMAIN el.v /\ el.v.id = JsStr(id)
             THEN rest
             ELSE <<el>> \o rest

\* C19: after saveSetup(name, scene, orientation) the list of getSavedSetups
\* is the list before the call, unchanged and in order, followed by a record
\* with that name, scene and orientation (also when the name is taken); after
\* deleteSetup(id) it is the list before the call without the records of
\* that id, every other record being retained.
C19_SaveDeleteRoundTrip ==
    LET before == lastCall.before
        now == getSavedSetups
    IN  /\ lastCall.op = "save" =>
               /\ before.t = "array" /\ now.t = "array"
               /\ Len(now.v) = Len(before.v) + 1
               /\ SubSeq(now.v, 1, Len(before.v)) = before.v
               /\ LET rec == now.v[Len(now.v)]
                  IN  /\ rec.t = "object"
                      /\ rec.v.name = JsStr(lastCall.args.name)
                      /\ rec.v.fielders = jsFielders(lastCall.args.fielders)
                      /\ rec.v.isLeftHanded = JsBool(lastCall.args.isLeftHanded)
        /\ lastCall.op = "delete" =>
               /\ before.t = "array" /\ now.t = "array"
               /\ now.v = withoutId(before.v, lastCall.args.id)

\* C20: a read failure counts as no saved setups and is never propagated:
\* when the stored data is missing, unparsable or not a list, getSavedSetups
\* returns the empty list, and no call of saveSetup or deleteSetup raises an
\* error.
C20_ReadFailuresAbsorbed ==
    /\ (lastCall.op = "get" /\ ~StoredIsList) => lastCall.result = JsArr(<< >>)
    /\ lastCall.op \in {"save", "delete"} => ~lastCall.threw

-----------------------------------------------------------------------------
(* Properties of the keeper and the bowler, under SpecFixedRoles *)

\* C27: the fixed roles are never reassigned by dragging: in every reachable
\* scene the token 'wk' has category keeper and the token 'bowler' has
\* category bowler.
C27_FixedRolesKeepCategory ==
    \A i \in 1..Len(fielders) :
        /\ fielders[i].id = "wk" => fielders[i].category = "keeper"
        /\ fielders[i].id = "bowler" => fielders[i].category = "bowler"

-----------------------------------------------------------------------------
(* Properties of the history, under SpecHistory *)

\* C24: in every reachable state 1 <= length(history) <= 50 and
\* 0 <= historyIndex <= length(history) - 1, so that undo and redo read
\* snapshots of the list only.
C24_IndexWithinHistory ==
    /\ 1 <= Len(history) /\ Len(history) <= 50
    /\ 0 <= historyIndex /\ historyIndex <= Len(history) - 1
    /\ historyIndex > 0 => historyIndex - 1 \in 0..(Len(history) - 1)
    /\ historyIndex < Len(history) - 1 => historyIndex + 1 \in 0..(Len(history) - 1)

\* the list is full after 55 pushes, and an undo and a redo have walked
\* back to its newest entry, index 49
C24_Witness ==
    /\ pushCount = 55 /\ Len(history) = 50
    /\ lastEvent = "redo" /\ historyIndex = 49

\* the snapshots of s were pushed one right after the other
consecutive(s) == \A i \in 1..(Len(s) - 1) : s[i + 1] = s[i] + 1

\* C9: the history never holds more than 50 snapshots, in the order they
\* were pushed, the newest last; a push at the newest entry of a full list
\* discards the oldest snapshot and nothing else, any other push discards
\* only the entries after the current one; a list of consecutive pushes holds
\* exactly the latest of them (after 60 pushes the last 50); undo moves one
\* entry back at most, stays on a retained snapshot and discards nothing.
C9_BoundedHistory ==
    /\ [](/\ Len(history) <= HISTORY_LIMIT
          /\ Len(histSerial) = Len(history)
          /\ \A i \in 1..(Len(histSerial) - 1) : histSerial[i] < histSerial[i + 1]
          /\ histSerial[Len(histSerial)] = pushCount
          /\ consecutive(histSerial) =>
                 /\ Len(history) = Min(pushCount + 1, HISTORY_LIMIT)
                 /\ histSerial[1] = pushCount + 1 - Len(history)
          /\ 0 <= historyIndex /\ historyIndex <= Len(history) - 1)
    /\ [][/\ pushCount' = pushCount + 1 =>
                 histSerial' =
                     IF historyIndex = HISTORY_LIMIT - 1
                     THEN Append(Tail(histSerial), pushCount')
                     ELSE Append(SubSeq(histSerial, 1, historyIndex + 1), pushCount')
          /\ lastEvent' = "undo" =>
                 /\ histSerial' = histSerial
                 /\ historyIndex' = Max(historyIndex - 1, 0)]_vars

\* after 60 pushes and repeated undo from the newest entry, undo rests on the
\* oldest retained snapshot, the 11th pushed
C9_Witness ==
    /\ pushCount = 60 /\ Len(history) = 50
    /\ lastEvent = "undo" /\ historyIndex = 0
    /\ histSerial[1] = 11 /\ histSerial[50] = 60

====
